---- MODULE Spec2Model ----
(***************************************************************************)
(* Request handlers of the Yatube blogging platform                        *)
(* (yatube/posts/views.py): the rows of Post, Comment and Follow, the      *)
(* request being answered and the response to it, and the page cache in    *)
(* front of the main listing.                                              *)
(***************************************************************************)
EXTENDS Integers, Sequences, FiniteSets, TLC

VARIABLES
    posts,      \* Post rows: posts[i] is the row with id i
    comments,   \* Comment rows, in creation order
    follows,    \* Follow rows: follows[<<user, author>>] is the number of rows
    pending,    \* profile_follow requests between get_or_create's lookup and its insert
    request,    \* the request being answered
    response,   \* the response to it, until the client has it
    cache       \* the cached page of the main listing

vars == <<posts, comments, follows, pending, request, response, cache>>

---------------------------------------------------------------------------
(* Bounds *)

\* Posts and comments created
MaxRows == 3
\* profile_follow requests between lookup and insert
MaxInFlight == 2

---------------------------------------------------------------------------
(* The data the requests draw from *)

\* Registered users (the fixtures of tests/test_views.py).
Users == {"author", "test_user"}

\* request.user of a client that is not logged in.
AnonymousUser == "AnonymousUser"

Requesters == Users \cup {AnonymousUser}

\* Usernames a URL can carry: the registered ones and one nobody has.
Usernames == Users \cup {"nobody"}

\* Existing Group rows, by primary key.
Groups == {"test-slug"}

\* Slugs a URL can carry: those of the groups and one no group has.
Slugs == Groups \cup {"no-slug"}

None == "None"

\* request.POST together with request.FILES: a dictionary with a key for
\* every field submitted, texts being sequences of characters.  The empty
\* dictionary is a GET (or a POST without data).
EmptyData == [k \in {} |-> None]

\* What PostForm is given: nothing, a blank text, a text alone, a text with
\* a group that exists or does not, with an upload, with both.
PostDatas ==
    {EmptyData,
     [text |-> <<" ">>],
     [text |-> <<"b">>],
     [text |-> <<" ", "a">>, group |-> "test-slug"],
     [text |-> <<"b">>, group |-> "no-such-group"],
     [text |-> <<"b">>, image |-> "small.gif"],
     [text |-> <<" ", "a">>, group |-> "test-slug", image |-> "small.gif"]}

\* What CommentForm is given.
CommentDatas == {EmptyData, [text |-> <<" ">>], [text |-> <<"c", " ">>]}

---------------------------------------------------------------------------
(* Forms *)

RECURSIVE LStrip(_)
LStrip(s) == IF s # <<>> /\ Head(s) = " " THEN LStrip(Tail(s)) ELSE s

RECURSIVE RStrip(_)
RStrip(s) ==
    IF s # <<>> /\ s[Len(s)] = " " THEN RStrip(SubSeq(s, 1, Len(s) - 1)) ELSE s

\* CharField.to_python with strip=True.
Strip(s) == RStrip(LStrip(s))

Submitted(data, field) == field \in DOMAIN data

\* The text field (required) of PostForm and CommentForm.
CleanText(data) == IF Submitted(data, "text") THEN Strip(data.text) ELSE <<>>

TextErrors(data) == IF CleanText(data) = <<>> THEN {"text"} ELSE {}

\* The group field (optional) of PostForm.
CleanGroup(data) == IF Submitted(data, "group") THEN data.group ELSE None

GroupErrors(data) ==
    IF Submitted(data, "group") /\ data.group \notin Groups THEN {"group"} ELSE {}

\* The image field (optional) of PostForm: without an upload it keeps the
\* instance's.
CleanImage(data, initial) == IF Submitted(data, "image") THEN data.image ELSE initial

\* PostForm(request.POST or None, files=request.FILES or None, instance=...)
PostForm(data, instance) ==
    LET bound == data # EmptyData
    IN  [is_bound |-> bound,
         errors   |-> IF bound THEN TextErrors(data) \cup GroupErrors(data) ELSE {},
         instance |-> instance,
         cleaned  |-> [text  |-> CleanText(data),
                       group |-> CleanGroup(data),
                       image |-> CleanImage(data, instance.image)]]

\* CommentForm(request.POST or None)
CommentForm(data) ==
    LET bound == data # EmptyData
    IN  [is_bound |-> bound,
         errors   |-> IF bound THEN TextErrors(data) ELSE {},
         cleaned  |-> [text |-> CleanText(data)]]

\* form.is_valid()
is_valid(form) == form.is_bound /\ form.errors = {}

\* A Post() not saved yet, the instance of a PostForm built without one.
BlankPost == [author |-> None, text |-> <<>>, group |-> None, image |-> None]

\* ModelForm.save(): construct_instance sets every field of the form from
\* cleaned_data, and leaves the model fields that the form does not have.
SavePostForm(form) ==
    [author |-> form.instance.author,
     text   |-> form.cleaned.text,
     group  |-> form.cleaned.group,
     image  |-> form.cleaned.image]

\* What a template sees of a form.
FormView(form) == [is_bound |-> form.is_bound, errors |-> form.errors]

---------------------------------------------------------------------------
(* Queries *)

ExistingPostIds == 1..Len(posts)

\* Post ids a URL can carry: the existing ones and the first not given yet.
PostIds == 1..(Len(posts) + 1)

Pairs == Users \X Users

\* Follow.objects.filter(user=u, author=a).count()
FollowCount(u, a) == follows[<<u, a>>]

\* The number of rows of a table kept as a count for every pair
CountRows(rows) ==
    LET RECURSIVE Sum(_)
        Sum(S) == IF S = {} THEN 0
                  ELSE LET p == CHOOSE q \in S : TRUE IN rows[p] + Sum(S \ {p})
    IN  Sum(Pairs)

\* Follow.objects.count()
FollowTotal == CountRows(follows)

\* profile_follow requests that have looked up and not yet inserted
InFlight == CountRows(pending)

\* n copies of x
Repeat(x, n) == [i \in 1..n |-> x]

\* The filter written from the wrong end of the relation: the posts of the
\* authors who follow u.
RECURSIVE PostsOfFollowers(_, _)
PostsOfFollowers(u, n) ==
    IF n = 0 THEN <<>>
    ELSE Repeat(n, FollowCount(posts[n].author, u)) \o PostsOfFollowers(u, n - 1)

\* Post.objects.filter(author__following__user=u): the join of Post with the
\* Follow rows of its author, one result per matching Follow row, most recent
\* Post first.
RECURSIVE FollowedPosts(_, _)
FollowedPosts(u, n) ==
    IF n = 0 THEN <<>>
    ELSE Repeat(n, FollowCount(u, posts[n].author)) \o FollowedPosts(u, n - 1)

\* Comment.objects.filter(post=post_id)
CommentsOf(id) == SelectSeq(comments, LAMBDA c : c.post = id)

\* Paginator(posts_list, 10)
PER_PAGE == 10

NumPages(list) ==
    IF Len(list) = 0 THEN 1 ELSE (Len(list) + PER_PAGE - 1) \div PER_PAGE

\* paginator.get_page(page_number): not a number means the first page, past
\* the last page means the last page.
GetPage(list, page_number) ==
    LET wanted == IF page_number = "2" THEN 2 ELSE 1
        number == IF wanted > NumPages(list) THEN NumPages(list) ELSE wanted
        bottom == (number - 1) * PER_PAGE
        top    == IF bottom + PER_PAGE > Len(list) THEN Len(list)
                  ELSE bottom + PER_PAGE
    IN  SubSeq(list, bottom + 1, top)

\* The page follow_index renders for `user`
Feed(user) == GetPage(FollowedPosts(user, Len(posts)), None)

\* The newest row missing from the listing.
AllButNewest == [i \in 1..(Len(posts) - 1) |-> Len(posts) - i]

\* Post.objects.all(): every Post, most recent first.
AllPosts == [i \in 1..Len(posts) |-> Len(posts) + 1 - i]

---------------------------------------------------------------------------
(* Responses *)

\* redirect(...)
Redirect(to) == [kind |-> "redirect", to |-> to]

\* render(request, template, context)
Render(template, context) ==
    [kind |-> "render", template |-> template, context |-> context]

\* get_object_or_404 raising Http404
NotFound == [kind |-> "not_found"]

\* An exception that leaves the handler: the server's error page.
ServerError(exception) == [kind |-> "server_error", exception |-> exception]

\* @login_required turning away a client that is not logged in.
ToLogin == Redirect(<<"users:login">>)

\* A handler left without @login_required.
login_not_required(user) == TRUE

is_authenticated(user) == user # AnonymousUser

Served(handler, user, args, resp) ==
    /\ request' = [handler |-> handler, user |-> user, args |-> args]
    /\ response' = resp

---------------------------------------------------------------------------
(* State after the fixtures are loaded: users and a group, no rows yet *)

NoRequest == [handler |-> None, user |-> None, args |-> EmptyData]
NoResponse == [kind |-> None]

\* The cache holding no page of the main listing.
NotCached == [kind |-> None]

Init ==
    /\ posts = <<>>
    /\ comments = <<>>
    /\ follows = [p \in Pairs |-> 0]
    /\ pending = [p \in Pairs |-> 0]
    /\ request = NoRequest
    /\ response = NoResponse
    /\ cache = NotCached

---------------------------------------------------------------------------
(* Handlers.  Each serves one request of `user` from start to end. *)

\* The page index renders: the first page of all posts.
index_page == Render("posts/index.html", [page_obj |-> GetPage(AllPosts, None)])

\* GET / behind the page cache: the cached page when there is one, else the
\* page index renders, which is then cached.
index(user) ==
    /\ Served("index", user, EmptyData,
              IF cache = NotCached THEN index_page ELSE cache)
    /\ cache' = IF cache = NotCached THEN index_page ELSE cache
    /\ UNCHANGED <<posts, comments, follows, pending>>

\* cache.clear()
cache_clear ==
    /\ cache' = NotCached
    /\ UNCHANGED <<posts, comments, follows, pending, request, response>>

\* The cached page reaching the end of its interval.
cache_timeout ==
    /\ cache # NotCached
    /\ cache' = NotCached
    /\ UNCHANGED <<posts, comments, follows, pending, request, response>>

\* group.posts.all(): the posts of the group, most recent first.
posts_of_group(slug) == SelectSeq(AllPosts, LAMBDA id : posts[id].group = slug)

\* GET /group/<slug>/
group_posts(user, slug) ==
    /\ Served("group_posts", user, [slug |-> slug],
              IF slug \notin Groups THEN NotFound
              ELSE Render("posts/group_list.html",
                          [group    |-> slug,
                           page_obj |-> GetPage(posts_of_group(slug), None)]))
    /\ UNCHANGED <<posts, comments, follows, pending>>

\* author.posts.select_related('group'): the posts of the author, most
\* recent first.
posts_of_author(username) ==
    SelectSeq(AllPosts, LAMBDA id : posts[id].author = username)

\* Follow.objects.filter(user=request.user.id, author=author), as the number
\* of rows; the id of a client that is not logged in is None and matches no
\* row.
follow_rows(user, username) ==
    IF user \in Users THEN FollowCount(user, username) ELSE 0

\* GET /profile/<username>/
profile(user, username) ==
    /\ Served("profile", user, [username |-> username],
              IF username \notin Users THEN NotFound
              ELSE Render("posts/profile.html",
                          [count     |-> Len(posts_of_author(username)),
                           author    |-> username,
                           post_list |-> posts_of_author(username),
                           page_obj  |-> GetPage(posts_of_author(username), None),
                           following |-> follow_rows(user, username)]))
    /\ UNCHANGED <<posts, comments, follows, pending>>

\* GET /posts/<post_id>/
post_detail(user, post_id) ==
    /\ Served("post_detail", user, [post_id |-> post_id],
              IF post_id \notin ExistingPostIds THEN NotFound
              ELSE Render("posts/post_detail.html",
                          [one_post |-> post_id,
                           form     |-> FormView(CommentForm(EmptyData)),
                           comment  |-> CommentsOf(post_id)]))
    /\ UNCHANGED <<posts, comments, follows, pending>>

\* The author never set on the new post.
new_post_without_author(form, user) == SavePostForm(form)

\* post = form.save(commit=False); post.author_id = request.user.id; form.save()
new_post(form, user) == [SavePostForm(form) EXCEPT !.author = user]

\* The form post_create renders when the submitted one is not valid:
\* `form = PostForm()`, a new form bound to nothing.
rendered_create_form(data) == PostForm(EmptyData, BlankPost)

\* /create/
post_create(user, data) ==
    LET form == PostForm(data, BlankPost)
        post == new_post(form, user)
        args == [data |-> data]
    IN  IF ~is_authenticated(user)
        THEN /\ Served("post_create", user, args, ToLogin)
             /\ UNCHANGED <<posts, comments, follows, pending>>
        ELSE IF is_valid(form)
        THEN /\ Len(posts) + Len(comments) < MaxRows
             /\ posts' = Append(posts, post)
             /\ Served("post_create", user, args, Redirect(<<"posts:profile", user>>))
             /\ UNCHANGED <<comments, follows, pending>>
        ELSE /\ Served("post_create", user, args,
                       Render("posts/create_post.html",
                              [form |-> FormView(rendered_create_form(data))]))
             /\ UNCHANGED <<posts, comments, follows, pending>>

\* The author check left out.
anyone_is_author(user, post) == TRUE

\* object_post.author == request.user
is_author(user, post) == post.author = user

\* The form built without instance=object_post.
edit_form_without_instance(data, post) == PostForm(data, BlankPost)

\* PostForm(request.POST or None, files=request.FILES or None, instance=object_post)
edit_form(data, post) == PostForm(data, post)

\* /posts/<post_id>/edit/
post_edit(user, post_id, data) ==
    LET args == [post_id |-> post_id, data |-> data]
    IN  IF ~is_authenticated(user)
        THEN /\ Served("post_edit", user, args, ToLogin)
             /\ UNCHANGED <<posts, comments, follows, pending>>
        ELSE IF post_id \notin ExistingPostIds
        THEN /\ Served("post_edit", user, args, NotFound)
             /\ UNCHANGED <<posts, comments, follows, pending>>
        ELSE IF is_author(user, posts[post_id])
        THEN LET form == edit_form(data, posts[post_id])
             IN  IF is_valid(form)
                 THEN /\ posts' = [posts EXCEPT ![post_id] = SavePostForm(form)]
                      /\ Served("post_edit", user, args,
                                Redirect(<<"posts:post_detail", post_id>>))
                      /\ UNCHANGED <<comments, follows, pending>>
                 ELSE /\ Served("post_edit", user, args,
                                Render("posts/create_post.html",
                                       [is_edit |-> TRUE, form |-> FormView(form)]))
                      /\ UNCHANGED <<posts, comments, follows, pending>>
        ELSE /\ Served("post_edit", user, args,
                       Redirect(<<"posts:post_detail", post_id>>))
             /\ UNCHANGED <<posts, comments, follows, pending>>

\* The comment attached to the oldest post instead of the one commented on.
new_comment_on_first_post(form, user, post_id) ==
    [post |-> 1, author |-> user, text |-> form.cleaned.text]

\* comment = form.save(commit=False); comment.author = request.user;
\* comment.post = post; comment.save()
new_comment(form, user, post_id) ==
    [post |-> post_id, author |-> user, text |-> form.cleaned.text]

\* /posts/<post_id>/comment/
add_comment(user, post_id, data) ==
    LET form == CommentForm(data)
        comment == new_comment(form, user, post_id)
        args == [post_id |-> post_id, data |-> data]
    IN  IF ~is_authenticated(user)
        THEN /\ Served("add_comment", user, args, ToLogin)
             /\ UNCHANGED <<posts, comments, follows, pending>>
        ELSE IF post_id \notin ExistingPostIds
        THEN /\ Served("add_comment", user, args, NotFound)
             /\ UNCHANGED <<posts, comments, follows, pending>>
        ELSE /\ IF is_valid(form)
                THEN /\ Len(posts) + Len(comments) < MaxRows
                     /\ comments' = Append(comments, comment)
                ELSE UNCHANGED comments
             /\ Served("add_comment", user, args,
                       Redirect(<<"posts:post_detail", post_id>>))
             /\ UNCHANGED <<posts, follows, pending>>

\* GET /follow/ (the first page: the request carries no page number)
follow_index(user) ==
    /\ Served("follow_index", user, EmptyData,
              IF ~is_authenticated(user) THEN ToLogin
              ELSE Render("posts/follow.html",
                          [page_obj |-> Feed(user)]))
    /\ UNCHANGED <<posts, comments, follows, pending>>

\* request.user and get_object_or_404(User, ...) as Python objects.
UserObject(username) == [type |-> "User", pk |-> username]

\* following.follower: the related manager of the Follow rows whose user is
\* `following`.
FollowerManager(username) == [type |-> "RelatedManager", instance |-> username]

\* A comparison that never finds two users equal.
AlwaysNotEqual(a, b) == TRUE

\* a != b as Model.__eq__ decides it: two model instances are equal when
\* their primary keys are; a model instance is never equal to anything else.
NotEqual(a, b) == ~(a.type = "User" /\ b.type = "User" /\ a.pk = b.pk)

\* Follow.objects.get_or_create(user=follower, author=following), as one
\* step: no row is created when one is there, and get() raises
\* MultipleObjectsReturned when several are.
get_or_create(follower, following) ==
    IF FollowCount(follower, following) = 0
    THEN [rows |-> [follows EXCEPT ![<<follower, following>>] = 1], raised |-> None]
    ELSE IF FollowCount(follower, following) = 1
    THEN [rows |-> follows, raised |-> None]
    ELSE [rows |-> follows, raised |-> "MultipleObjectsReturned"]

\* /profile/<username>/follow/
profile_follow(user, username) ==
    LET args == [username |-> username]
        to_profile == Redirect(<<"posts:profile", username>>)
    IN  IF ~is_authenticated(user)
        THEN /\ Served("profile_follow", user, args, ToLogin)
             /\ UNCHANGED <<posts, comments, follows, pending>>
        ELSE IF username \notin Users
        THEN /\ Served("profile_follow", user, args, NotFound)
             /\ UNCHANGED <<posts, comments, follows, pending>>
        ELSE IF /\ NotEqual(UserObject(user), UserObject(username))
                /\ NotEqual(UserObject(user), FollowerManager(username))
        THEN LET got == get_or_create(user, username)
             IN  /\ follows' = got.rows
                 /\ Served("profile_follow", user, args,
                           IF got.raised = None THEN to_profile
                           ELSE ServerError(got.raised))
                 /\ UNCHANGED <<posts, comments, pending>>
        ELSE /\ Served("profile_follow", user, args, to_profile)
             /\ UNCHANGED <<posts, comments, follows, pending>>

\* profile_follow up to the lookup of get_or_create (its get()): when no
\* row is found the request goes on to the insert, otherwise it is answered.
profile_follow_lookup(user, username) ==
    LET args == [username |-> username]
        to_profile == Redirect(<<"posts:profile", username>>)
    IN  IF ~is_authenticated(user)
        THEN /\ Served("profile_follow", user, args, ToLogin)
             /\ UNCHANGED <<posts, comments, follows, pending>>
        ELSE IF username \notin Users
        THEN /\ Served("profile_follow", user, args, NotFound)
             /\ UNCHANGED <<posts, comments, follows, pending>>
        ELSE IF /\ NotEqual(UserObject(user), UserObject(username))
                /\ NotEqual(UserObject(user), FollowerManager(username))
        THEN IF FollowCount(user, username) = 0
             THEN /\ InFlight < MaxInFlight
                  /\ pending' = [pending EXCEPT ![<<user, username>>] = @ + 1]
                  /\ UNCHANGED <<posts, comments, follows, request, response>>
             ELSE /\ Served("profile_follow", user, args,
                            IF FollowCount(user, username) = 1 THEN to_profile
                            ELSE ServerError("MultipleObjectsReturned"))
                  /\ UNCHANGED <<posts, comments, follows, pending>>
        ELSE /\ Served("profile_follow", user, args, to_profile)
             /\ UNCHANGED <<posts, comments, follows, pending>>

\* The insert of get_or_create (its create()) and the redirect after it, for
\* a request whose lookup found no row.
profile_follow_insert(user, username) ==
    /\ pending[<<user, username>>] > 0
    /\ pending' = [pending EXCEPT ![<<user, username>>] = @ - 1]
    /\ follows' = [follows EXCEPT ![<<user, username>>] = @ + 1]
    /\ Served("profile_follow", user, [username |-> username],
              Redirect(<<"posts:profile", username>>))
    /\ UNCHANGED <<posts, comments>>

\* The delete filtered on the user alone.
DeleteFollowsOfUser(user, username) ==
    [p \in Pairs |-> IF p[1] = user THEN 0 ELSE follows[p]]

\* Follow.objects.filter(user=user, author__username=username).delete()
DeleteFollows(user, username) ==
    [p \in Pairs |-> IF p = <<user, username>> THEN 0 ELSE follows[p]]

\* /profile/<username>/unfollow/
profile_unfollow(user, username) ==
    LET args == [username |-> username]
    IN  IF ~is_authenticated(user)
        THEN /\ Served("profile_unfollow", user, args, ToLogin)
             /\ UNCHANGED <<posts, comments, follows, pending>>
        ELSE /\ follows' = DeleteFollows(user, username)
             /\ Served("profile_unfollow", user, args,
                       Redirect(<<"posts:profile", username>>))
             /\ UNCHANGED <<posts, comments, pending>>

---------------------------------------------------------------------------
(* Requests served one at a time: a request is taken when the response to *)
(* the one before has gone out                                            *)

Idle == response = NoResponse

GroupPosts ==
    /\ Idle
    /\ \E u \in Requesters, slug \in Slugs : group_posts(u, slug)
    /\ UNCHANGED cache
Profile ==
    /\ Idle
    /\ \E u \in Requesters, name \in Usernames : profile(u, name)
    /\ UNCHANGED cache
PostDetail ==
    /\ Idle
    /\ \E u \in Requesters, id \in PostIds : post_detail(u, id)
    /\ UNCHANGED cache
PostCreate ==
    /\ Idle
    /\ \E u \in Requesters, d \in PostDatas : post_create(u, d)
    /\ UNCHANGED cache
PostEdit ==
    /\ Idle
    /\ \E u \in Requesters, id \in PostIds, d \in PostDatas : post_edit(u, id, d)
    /\ UNCHANGED cache
AddComment ==
    /\ Idle
    /\ \E u \in Requesters, id \in PostIds, d \in CommentDatas : add_comment(u, id, d)
    /\ UNCHANGED cache
FollowIndex ==
    /\ Idle
    /\ \E u \in Requesters : follow_index(u)
    /\ UNCHANGED cache
ProfileFollow ==
    /\ Idle
    /\ \E u \in Requesters, name \in Usernames : profile_follow(u, name)
    /\ UNCHANGED cache
ProfileUnfollow ==
    /\ Idle
    /\ \E u \in Requesters, name \in Usernames : profile_unfollow(u, name)
    /\ UNCHANGED cache

\* The response goes out to the client.
Respond ==
    /\ ~Idle
    /\ request' = NoRequest
    /\ response' = NoResponse
    /\ UNCHANGED <<posts, comments, follows, pending, cache>>

Next ==
    \/ GroupPosts
    \/ Profile
    \/ PostDetail
    \/ PostCreate
    \/ PostEdit
    \/ AddComment
    \/ FollowIndex
    \/ ProfileFollow
    \/ ProfileUnfollow
    \/ Respond

Spec == Init /\ [][Next]_vars

---------------------------------------------------------------------------
(* The follow handlers with the two statements of get_or_create taken apart, *)
(* requests being served by several threads                                  *)

ProfileFollowLookup ==
    /\ \E u \in Requesters, name \in Usernames : profile_follow_lookup(u, name)
    /\ UNCHANGED cache
ProfileFollowInsert ==
    /\ \E u \in Users, name \in Users : profile_follow_insert(u, name)
    /\ UNCHANGED cache
ProfileUnfollowConc ==
    /\ \E u \in Requesters, name \in Usernames : profile_unfollow(u, name)
    /\ UNCHANGED cache
FollowIndexConc ==
    /\ \E u \in Requesters : follow_index(u)
    /\ UNCHANGED cache

NextConc ==
    \/ ProfileFollowLookup
    \/ ProfileFollowInsert
    \/ ProfileUnfollowConc
    \/ FollowIndexConc

SpecConc == Init /\ [][NextConc]_vars

---------------------------------------------------------------------------
(* The main listing behind its page cache, posts being created meanwhile *)

Index == Idle /\ \E u \in Requesters : index(u)
CacheClear == Idle /\ cache_clear
CacheTimeout == cache_timeout

NextCache ==
    \/ Index
    \/ PostCreate
    \/ CacheClear
    \/ CacheTimeout
    \/ Respond

SpecCache == Init /\ [][NextCache]_vars

---------------------------------------------------------------------------
(* Properties *)

ProtectedRoutes ==
    {"post_create", "post_edit", "add_comment", "follow_index",
     "profile_follow", "profile_unfollow"}

DetailOf(post_id) == Redirect(<<"posts:post_detail", post_id>>)
ProfileOf(username) == Redirect(<<"posts:profile", username>>)

\* C1: a request of an anonymous user to a protected route (post_create,
\* post_edit, add_comment, follow_index, profile_follow, profile_unfollow) is
\* answered with the redirect to login and leaves the Post, Comment and
\* Follow rows as they were.
AnonymousIsSentToLogin ==
    [][(request'.user = AnonymousUser /\ request'.handler \in ProtectedRoutes)
         => /\ response' = ToLogin
            /\ UNCHANGED <<posts, comments, follows>>]_vars

\* An anonymous POST of a valid post to the create route, and an anonymous
\* comment on an existing post, have been turned away.
AnonymousWasSentToLogin ==
    /\ request.user = AnonymousUser
    /\ \/ /\ request.handler = "post_create"
          /\ request.args.data = [text |-> <<"b">>]
          /\ Len(posts) = 1
       \/ /\ request.handler = "add_comment"
          /\ request.args.data = [text |-> <<"c", " ">>]
          /\ request.args.post_id \in ExistingPostIds
          /\ comments = <<>>
    /\ response = ToLogin

\* C2: post_edit requested by an authenticated user who is not the author of
\* the existing post leaves the posts as they were and redirects to the
\* post's detail page, whatever is submitted; and a step changes a post only
\* when it is a post_edit of that post requested by its author.
OnlyTheAuthorEdits ==
    [][/\ \A id \in ExistingPostIds :
            ( /\ request'.handler = "post_edit"
              /\ is_authenticated(request'.user)
              /\ request'.args.post_id = id
              /\ posts[id].author # request'.user )
            => (posts' = posts /\ response' = DetailOf(id))
       /\ \A id \in ExistingPostIds :
            posts'[id] # posts[id]
            => /\ request'.handler = "post_edit"
               /\ request'.args.post_id = id
               /\ request'.user = posts[id].author]_vars

\* Someone else's post_edit, with a valid text and group submitted, has been
\* redirected to the detail page of a post that still has no group.
StrangerWasRedirected ==
    /\ request.handler = "post_edit"
    /\ request.user \in Users
    /\ request.args.post_id \in ExistingPostIds
    /\ posts[request.args.post_id].author \in Users \ {request.user}
    /\ request.args.data = [text |-> <<" ", "a">>, group |-> "test-slug"]
    /\ posts[request.args.post_id].group = None
    /\ response = DetailOf(request.args.post_id)

\* C3: post_create by an authenticated user with a valid form adds exactly
\* one Post, whose author is the requesting user, changes no existing Post,
\* and redirects to the requesting user's profile.
CreateAddsOnePost ==
    [][( /\ request'.handler = "post_create"
         /\ is_authenticated(request'.user)
         /\ is_valid(PostForm(request'.args.data, BlankPost)) )
         => /\ Len(posts') = Len(posts) + 1
            /\ SubSeq(posts', 1, Len(posts)) = posts
            /\ posts'[Len(posts')].author = request'.user
            /\ response' = ProfileOf(request'.user)]_vars

\* A second post has been created, with a text and no group, by a user who
\* is not the author of the first.
PostWasCreated ==
    /\ request.handler = "post_create"
    /\ request.user \in Users
    /\ request.args.data = [text |-> <<"b">>]
    /\ Len(posts) = 2
    /\ posts[2] = [author |-> request.user, text |-> <<"b">>, group |-> None, image |-> None]
    /\ posts[1].author # request.user
    /\ response = ProfileOf(request.user)

\* C4: post_create by an authenticated user with a form that is not valid
\* saves nothing, does not redirect, and renders the create form as the
\* submitted, failed form: bound, with the errors of the fields submitted.
CreateFailureShowsErrors ==
    [][( /\ request'.handler = "post_create"
         /\ is_authenticated(request'.user)
         /\ ~is_valid(PostForm(request'.args.data, BlankPost)) )
         => /\ posts' = posts
            /\ response'.kind = "render"
            /\ response'.template = "posts/create_post.html"
            /\ response'.context.form
                 = FormView(PostForm(request'.args.data, BlankPost))]_vars

\* C5, as stated: post_edit by the author with a valid form gives every
\* submitted field the submitted value (the text as the form cleans it,
\* stripped of surrounding blanks), leaves every field not submitted, the
\* author and every other post as they were, and redirects to the post's
\* detail page.
EditChangesOnlySubmittedFields ==
    [][\A id \in ExistingPostIds :
        ( /\ request'.handler = "post_edit"
          /\ request'.user = posts[id].author
          /\ request'.args.post_id = id
          /\ is_valid(PostForm(request'.args.data, posts[id])) )
        => LET data == request'.args.data
           IN  /\ Len(posts') = Len(posts)
               /\ \A other \in ExistingPostIds \ {id} : posts'[other] = posts[other]
               /\ posts'[id].author = posts[id].author
               /\ posts'[id].text = Strip(data.text)
               /\ posts'[id].group =
                    IF Submitted(data, "group") THEN data.group ELSE posts[id].group
               /\ posts'[id].image =
                    IF Submitted(data, "image") THEN data.image ELSE posts[id].image
               /\ response' = DetailOf(id)]_vars

\* C5, amended: post_edit by the author with a valid form sets the text to
\* the submitted text stripped of surrounding blanks and the group to the
\* submitted group, or to no group when none is submitted; the image changes
\* only when one is uploaded; the author and every other post stay as they
\* were, and the response is the redirect to the post's detail page.
EditSetsTextAndGroup ==
    [][\A id \in ExistingPostIds :
        ( /\ request'.handler = "post_edit"
          /\ request'.user = posts[id].author
          /\ request'.args.post_id = id
          /\ is_valid(PostForm(request'.args.data, posts[id])) )
        => LET data == request'.args.data
           IN  /\ Len(posts') = Len(posts)
               /\ \A other \in ExistingPostIds \ {id} : posts'[other] = posts[other]
               /\ posts'[id].author = posts[id].author
               /\ posts'[id].text = Strip(data.text)
               /\ posts'[id].group =
                    IF Submitted(data, "group") THEN data.group ELSE None
               /\ posts'[id].image =
                    IF Submitted(data, "image") THEN data.image ELSE posts[id].image
               /\ response' = DetailOf(id)]_vars

\* The author has edited the second of two posts submitting a text alone:
\* the post keeps its image and has no group.
AuthorEditedText ==
    /\ request.handler = "post_edit"
    /\ request.args.post_id = 2
    /\ Len(posts) = 2
    /\ request.user = posts[2].author
    /\ request.args.data = [text |-> <<"b">>]
    /\ posts[2] = [author |-> request.user, text |-> <<"b">>, group |-> None,
                   image |-> "small.gif"]
    /\ posts[1].group = "test-slug"
    /\ response = DetailOf(2)

\* The newest comment
LastComment == comments[Len(comments)]

\* C6: add_comment by an authenticated user on an existing post creates,
\* with a valid text, exactly one Comment, of that post and that user, which
\* is among the comments post_detail shows for the post; it creates none
\* with a text that is not valid; either way it redirects to the post's
\* detail page and changes no Post and no Follow row.
CommentIsAddedToThePost ==
    [][\A id \in ExistingPostIds :
        ( /\ request'.handler = "add_comment"
          /\ is_authenticated(request'.user)
          /\ request'.args.post_id = id )
        => /\ IF is_valid(CommentForm(request'.args.data))
              THEN /\ Len(comments') = Len(comments) + 1
                   /\ SubSeq(comments', 1, Len(comments)) = comments
                   /\ LastComment'.post = id
                   /\ LastComment'.author = request'.user
                   /\ \E i \in 1..Len(CommentsOf(id)') :
                        CommentsOf(id)'[i] = LastComment'
              ELSE comments' = comments
           /\ response' = DetailOf(id)
           /\ UNCHANGED <<posts, follows>>]_vars

\* A user has commented on the second post, which is somebody else's.
CommentWasAdded ==
    /\ request.handler = "add_comment"
    /\ request.user \in Users
    /\ request.args = [post_id |-> 2, data |-> [text |-> <<"c", " ">>]]
    /\ Len(posts) = 2
    /\ posts[2].author # request.user
    /\ comments = <<[post |-> 2, author |-> request.user, text |-> <<"c">>]>>
    /\ response = DetailOf(2)

FollowStep(u, t) ==
    /\ request'.handler = "profile_follow"
    /\ request'.user = u
    /\ request'.args.username = t

UnfollowStep(u, t) ==
    /\ request'.handler = "profile_unfollow"
    /\ request'.user = u
    /\ request'.args.username = t

\* Unfollowing with no row to delete deletes nothing and redirects to the
\* profile all the same.
UnfollowIsIdempotent ==
    \A u \in Users, name \in Usernames :
        (UnfollowStep(u, name) /\ (name \in Users => FollowCount(u, name) = 0))
        => (follows' = follows /\ response' = ProfileOf(name))

\* C7, as stated: from every reachable state, for every user u and existing
\* user t, profile_follow(u, t) followed at once by profile_unfollow(u, t)
\* (which leaves the rows DeleteFollows(u, t) of the state after the follow)
\* leaves as many Follow rows as there were before the follow; and
\* profile_unfollow is idempotent.
FollowThenUnfollowRestoresCount ==
    [][/\ \A u \in Users, t \in Users :
            FollowStep(u, t) => CountRows(DeleteFollows(u, t)') = FollowTotal
       /\ UnfollowIsIdempotent]_vars

\* C7, amended: the same, for a user u who does not follow t when the
\* follow request is made.
FollowThenUnfollowRestoresCountOfNewFollower ==
    [][/\ \A u \in Users, t \in Users :
            (FollowStep(u, t) /\ FollowCount(u, t) = 0)
            => CountRows(DeleteFollows(u, t)') = FollowTotal
       /\ UnfollowIsIdempotent]_vars

\* A user has unfollowed somebody: no row of the pair is left, while the
\* row of the other pair is still there.
UserHasUnfollowed ==
    /\ request.handler = "profile_unfollow"
    /\ request.user \in Users
    /\ request.args.username \in Users \ {request.user}
    /\ FollowCount(request.user, request.args.username) = 0
    /\ FollowCount(request.args.username, request.user) = 1
    /\ response = ProfileOf(request.args.username)

\* C8: there is at most one Follow row for any pair of follower and
\* followee, also when the lookups and inserts of two profile_follow
\* requests interleave.
AtMostOneFollowRowPerPair == \A p \in Pairs : follows[p] <= 1

\* C9: no Follow row has the same user as follower and followee, and
\* profile_follow of the requester's own profile creates no row and only
\* redirects to that profile.
NobodyFollowsThemselves ==
    [][/\ \A u \in Users : FollowCount(u, u)' = 0
       /\ \A u \in Users :
            FollowStep(u, u) => (follows' = follows /\ response' = ProfileOf(u))]_vars

\* A user who is followed has asked to follow themselves.
UserAskedToFollowThemselves ==
    /\ request.handler = "profile_follow"
    /\ request.user \in Users
    /\ request.args.username = request.user
    /\ response = ProfileOf(request.user)
    /\ FollowTotal = 1

Range(list) == {list[i] : i \in 1..Len(list)}

\* The posts of the authors u has a Follow row for
PostsOfFollowed(u) == {id \in ExistingPostIds : FollowCount(u, posts[id].author) > 0}

PostsBy(a) == {id \in ExistingPostIds : posts[id].author = a}

\* C10: the feed follow_index renders for a user u lists, each once, exactly
\* the posts whose author u has a Follow row for; right after u follows an
\* author the feed has every post of that author, and right after u
\* unfollows an author it has none of them.
FeedListsFollowedAuthors ==
    [][\A u \in Users :
        /\ (request'.handler = "follow_index" /\ request'.user = u)
           => /\ response'.kind = "render"
              /\ Range(response'.context.page_obj) = PostsOfFollowed(u)'
              /\ Len(response'.context.page_obj) = Cardinality(PostsOfFollowed(u)')
        /\ \A a \in Users \ {u} :
             /\ FollowStep(u, a) => PostsBy(a)' \subseteq Range(Feed(u)')
             /\ UnfollowStep(u, a) => PostsBy(a)' \cap Range(Feed(u)') = {}]_vars

\* A user's feed has been rendered with the post of the author they follow
\* and without their own post.
FeedWasRendered ==
    /\ request.handler = "follow_index"
    /\ request.user \in Users
    /\ Len(posts) = 2
    /\ posts[2].author = request.user
    /\ posts[1].author # request.user
    /\ FollowCount(request.user, posts[1].author) = 1
    /\ response.kind = "render"
    /\ response.context.page_obj = <<1>>

\* A step that serves a request for the main listing
IndexStep == Idle /\ request'.handler = "index"

\* A step that serves a request to create a post
CreateStep == Idle /\ request'.handler = "post_create"

\* C11: an index request served while a page is cached is answered with that
\* page, so it lists no post created since the page was cached, and leaves
\* the cache as it is; an index request served while no page is cached (the
\* first one after a clear) lists every post, the newest first; creating a
\* post never changes the cached page; the cached page changes only by being
\* stored when there was none and by being cleared or timing out.
CachedIndexIgnoresNewPosts ==
    [][/\ (IndexStep /\ cache # NotCached)
          => /\ response' = cache
             /\ cache' = cache
             /\ \A id \in ExistingPostIds' :
                  id \notin Range(cache.context.page_obj)
                  => id \notin Range(response'.context.page_obj)
       /\ (IndexStep /\ cache = NotCached)
          => /\ response'.kind = "render"
             /\ ExistingPostIds' \subseteq Range(response'.context.page_obj)
             /\ posts' # <<>> => response'.context.page_obj[1] = Len(posts')
             /\ cache' = response'
       /\ CreateStep => cache' = cache
       /\ cache' # cache
          => \/ IndexStep /\ cache = NotCached
             \/ cache' = NotCached]_vars

\* The main listing has been served from a page cached when there was one
\* post, a second post having been created since.
StalePageWasServed ==
    /\ request.handler = "index"
    /\ response = cache
    /\ response.kind = "render"
    /\ response.context.page_obj = <<1>>
    /\ Len(posts) = 2

\* The request names a group, a user or a post that is not there; for the
\* handlers behind the login, the requester is logged in.
ReferenceIsMissing(req) ==
    \/ /\ req.handler = "group_posts"
       /\ req.args.slug \notin Groups
    \/ /\ req.handler = "profile"
       /\ req.args.username \notin Users
    \/ /\ req.handler = "post_detail"
       /\ req.args.post_id \notin ExistingPostIds
    \/ /\ req.handler \in {"post_edit", "add_comment"}
       /\ is_authenticated(req.user)
       /\ req.args.post_id \notin ExistingPostIds
    \/ /\ req.handler \in {"profile_follow", "profile_unfollow"}
       /\ is_authenticated(req.user)
       /\ req.args.username \notin Users

\* C12: a request to group_posts, profile or post_detail, or by a logged-in
\* user to post_edit, add_comment, profile_follow or profile_unfollow, that
\* names a group, user or post that does not exist is answered with the
\* not-found response and leaves the Post, Comment and Follow rows as they
\* were.
MissingReferenceIsNotFound ==
    [][(Idle /\ ReferenceIsMissing(request'))
       => /\ response' = NotFound
          /\ UNCHANGED <<posts, comments, follows>>]_vars

====
